---- MODULE Spec2Model ----
(***************************************************************************)
(* A model of lib/pa11y.js: the pa11y() entry point, its race against the  *)
(* p-timeout timer, the runPa11yTest pipeline, the request-interception    *)
(* hook and the options resolver.                                          *)
(*                                                                         *)
(* JavaScript strings that the code transforms character by character      *)
(* (toLowerCase) are sequences of one-character strings; strings the code  *)
(* only passes around or compares are TLA+ strings.  A JavaScript object   *)
(* is a function whose DOMAIN is the set of its own keys.                  *)
(***************************************************************************)
EXTENDS Integers, Sequences, FiniteSets, TLC

(* ---------------------------------------------------------------- bounds *)

\* Longest list of configured actions.
MaxActions == 2

\* Most requests the page issues in one run.
MaxRequests == 3

\* Longest caller ignore list in the options-resolver specification.
MaxIgnore == 2

\* Most characters that follow the leading part of a url input.
MaxUrlTail == 2

\* Most entries of options.headers in the request-hook specification.
MaxHeaders == 2

\* Concurrent invocations of pa11y(), and most requests the page of each
\* issues, in the specification of concurrent invocations.
MaxInvocations == 2
MaxRequestsEach == 1

\* Most calls of pa11y() one after the other with the same options object,
\* in the options-resolver specification.
MaxCalls == 2

(* ------------------------------------------------------- strings, values *)

\* JavaScript null, for the options whose values are otherwise strings.
Null == "<null>"

\* The object {}.
EmptyObject == [k \in {} |-> Null]

\* The letters String.prototype.toLowerCase changes (ASCII range).
UpperToLower ==
    [c \in {"A", "B", "C", "D", "E", "F", "G", "H", "I", "J", "K", "L", "M",
            "N", "O", "P", "Q", "R", "S", "T", "U", "V", "W", "X", "Y", "Z"} |->
        CASE c = "A" -> "a" [] c = "B" -> "b" [] c = "C" -> "c" [] c = "D" -> "d"
          [] c = "E" -> "e" [] c = "F" -> "f" [] c = "G" -> "g" [] c = "H" -> "h"
          [] c = "I" -> "i" [] c = "J" -> "j" [] c = "K" -> "k" [] c = "L" -> "l"
          [] c = "M" -> "m" [] c = "N" -> "n" [] c = "O" -> "o" [] c = "P" -> "p"
          [] c = "Q" -> "q" [] c = "R" -> "r" [] c = "S" -> "s" [] c = "T" -> "t"
          [] c = "U" -> "u" [] c = "V" -> "v" [] c = "W" -> "w" [] c = "X" -> "x"
          [] c = "Y" -> "y" [] c = "Z" -> "z"]

\* A toLowerCase that forgets to convert (the entry is kept as written).
ToLowerCaseKept(s) == s

\* String.prototype.toLowerCase on a sequence of characters.
ToLowerCase(s) ==
    [i \in 1..Len(s) |-> IF s[i] \in DOMAIN UpperToLower THEN UpperToLower[s[i]] ELSE s[i]]

\* The strings "notice" and "warning" of defaultOptions, and "user-agent".
Notice == <<"n", "o", "t", "i", "c", "e">>
Warning == <<"w", "a", "r", "n", "i", "n", "g">>
UserAgentKey == <<"u", "s", "e", "r", "-", "a", "g", "e", "n", "t">>

\* Truthiness of an option whose value is null or a string.
Truthy(v) == v # Null /\ v # ""

(* --------------------------------------------------------------- options *)

\* pa11y.allowedStandards.
allowedStandards == <<"Section508", "WCAG2A", "WCAG2AA", "WCAG2AAA">>

\* The default timeout, in milliseconds.
DefaultTimeout == 30000

\* pa11y.defaults.
defaults ==
    [actions |-> <<>>,
     chromeLaunchConfig |-> [ignoreHTTPSErrors |-> TRUE],
     headers |-> <<>>,
     hideElements |-> Null,
     ignore |-> <<>>,
     includeNotices |-> FALSE,
     includeWarnings |-> FALSE,
     log |-> [debug |-> "noop", error |-> "noop", info |-> "noop"],
     method |-> "GET",
     postData |-> Null,
     rootElement |-> Null,
     rules |-> <<>>,
     screenCapture |-> Null,
     standard |-> "WCAG2AA",
     timeout |-> DefaultTimeout,
     userAgent |-> "pa11y/version",
     viewport |-> [width |-> 1280, height |-> 1024],
     wait |-> 0]

\* The property pa11y.defaults of the exported function: one object for the
\* whole process, with the value above when the module is loaded.
VARIABLE pa11yDefaults

\* node.extend(target, a, b) without the deep flag: every own key of b
\* replaces the key of a, whole value by whole value.
extend(a, b) ==
    [k \in DOMAIN a \cup DOMAIN b |-> IF k \in DOMAIN b THEN b[k] ELSE a[k]]

\* The two pushes with the conditions inverted.
PushSeveritiesInverted(ignore, includeNotices, includeWarnings) ==
    (ignore \o (IF includeNotices THEN <<Notice>> ELSE <<>>))
        \o (IF includeWarnings THEN <<Warning>> ELSE <<>>)

\* The ignore list after the two conditional pushes.
PushSeverities(ignore, includeNotices, includeWarnings) ==
    (ignore \o (IF ~includeNotices THEN <<Notice>> ELSE <<>>))
        \o (IF ~includeWarnings THEN <<Warning>> ELSE <<>>)

\* options.ignore.map(ignored => ignored.toLowerCase()).
LowerCaseAll(ignore) == [i \in 1..Len(ignore) |-> ToLowerCase(ignore[i])]

\* defaultOptions(options).
defaultOptions(opts) ==
    LET merged == extend(pa11yDefaults, opts)
    IN [merged EXCEPT !.ignore =
            PushSeverities(LowerCaseAll(merged.ignore),
                           merged.includeNotices, merged.includeWarnings)]

\* The array options.ignore refers to after the merge, which copies
\* references: the caller's if the caller passed one, else the one of
\* pa11y.defaults.
IgnoreOwner(opts) == IF "ignore" \in DOMAIN opts THEN "caller" ELSE "defaults"

\* A lower-casing that writes into the array it reads.
MappedInPlace(owner) == owner

\* Array.prototype.map returns a new array.
MappedArray(owner) == "new"

\* The array that defaultOptions(opts) assigns to options.ignore and pushes
\* to.
WrittenArray(opts) == MappedArray(IgnoreOwner(opts))

\* pa11y.defaults, and the caller's options object, after
\* defaultOptions(opts): written where the written array is theirs.
DefaultsAfter(opts) ==
    IF WrittenArray(opts) = "defaults"
    THEN [pa11yDefaults EXCEPT !.ignore = defaultOptions(opts).ignore]
    ELSE pa11yDefaults
CallerAfter(opts) ==
    IF WrittenArray(opts) = "caller"
    THEN [opts EXCEPT !.ignore = defaultOptions(opts).ignore]
    ELSE opts

\* A verifyOptions that accepts every standard.
verifyOptionsAcceptsAll(opts) == TRUE

\* verifyOptions(options): TRUE when it returns, FALSE when it throws.
verifyOptions(opts) ==
    \E i \in 1..Len(allowedStandards) : allowedStandards[i] = opts.standard

(* ------------------------------------------------------------------- url *)

\* The literal strings of sanitizeUrl.
FileScheme == <<"f", "i", "l", "e", ":", "/", "/">>
HttpScheme == <<"h", "t", "t", "p", ":", "/", "/">>
HttpsScheme == <<"h", "t", "t", "p", "s", ":", "/", "/">>

\* process.cwd(): an absolute, normalised directory.
Cwd == <<"/", "w", "/", "d">>

\* s begins with the literal p: /^\// and /^\./.
StartsWith(s, p) == Len(s) >= Len(p) /\ SubSeq(s, 1, Len(p)) = p

\* The segments of a path, split at every "/".
RECURSIVE SplitPath(_)
SplitPath(s) ==
    IF s = <<>>
    THEN <<<<>>>>
    ELSE LET rest == SplitPath(Tail(s))
         IN IF Head(s) = "/"
            THEN <<<<>>>> \o rest
            ELSE <<<<Head(s)>> \o Head(rest)>> \o Tail(rest)

\* The first n segments normalised: empty and "." segments dropped, ".."
\* removing the segment before it (and nothing at the root).
RECURSIVE NormalizeSegments(_, _)
NormalizeSegments(segs, n) ==
    IF n = 0
    THEN <<>>
    ELSE LET before == NormalizeSegments(segs, n - 1)
             seg == segs[n]
         IN IF seg = <<>> \/ seg = <<".">>
            THEN before
            ELSE IF seg = <<".", ".">>
                 THEN IF before = <<>> THEN before ELSE SubSeq(before, 1, Len(before) - 1)
                 ELSE Append(before, seg)

\* The segments joined again, each behind a "/".
RECURSIVE JoinSegments(_)
JoinSegments(segs) ==
    IF segs = <<>> THEN <<>> ELSE (<<"/">> \o Head(segs)) \o JoinSegments(Tail(segs))

\* path.resolve(from, to) of POSIX: to when it is absolute, else to
\* appended to from; then normalised, without a trailing slash.
PathResolve(from, to) ==
    LET joined == IF StartsWith(to, <<"/">>) THEN to ELSE (from \o <<"/">>) \o to
        segs == SplitPath(joined)
        path == JoinSegments(NormalizeSegments(segs, Len(segs)))
    IN IF path = <<>> THEN <<"/">> ELSE path

\* The alternatives of /^(https?|file):\/\//i.
SchemePrefixesWithoutFile == {HttpScheme, HttpsScheme}
SchemePrefixes == {HttpScheme, HttpsScheme, FileScheme}

\* The scheme test without the i flag.
HasSchemeCaseSensitive(s) == \E p \in SchemePrefixes : StartsWith(s, p)

\* /^(https?|file):\/\//i.test(url): letters match in either case.
HasScheme(s) ==
    \E p \in SchemePrefixes :
        Len(s) >= Len(p) /\ ToLowerCase(SubSeq(s, 1, Len(p))) = ToLowerCase(p)

\* sanitizeUrl(url).
sanitizeUrl(u) ==
    IF StartsWith(u, <<"/">>)
    THEN FileScheme \o u
    ELSE IF StartsWith(u, <<".">>)
         THEN FileScheme \o PathResolve(Cwd, u)
         ELSE IF ~HasScheme(u) THEN HttpScheme \o u ELSE u

(* ------------------------------------------------------ errors, outcomes *)

\* No error.
NoError == [kind |-> "none", stage |-> "", index |-> 0, ms |-> 0, allowed |-> <<>>]

\* new Error(`Standard must be one of ${pa11y.allowedStandards.join(', ')}`).
ConfigError == [NoError EXCEPT !.kind = "config", !.allowed = allowedStandards]

\* The TimeoutError of p-timeout, message `Pa11y timed out (${options.timeout}ms)`.
TimeoutError(ms) == [NoError EXCEPT !.kind = "timeout", !.ms = ms]

\* The rejection of the browser operation awaited at stage s (action number i).
StageError(s, i) == [NoError EXCEPT !.kind = "stage", !.stage = s, !.index = i]

\* What a throwing callback throws.
CallbackError == [NoError EXCEPT !.kind = "callback"]

\* What a rejected browser.close() rejects with.
CloseError == [NoError EXCEPT !.kind = "close"]

\* The values a caller can observe.
Undefined == [kind |-> "undefined", results |-> "", error |-> NoError]
ResultsOutcome(r) == [kind |-> "results", results |-> r, error |-> NoError]
ErrorOutcome(e) == [kind |-> "error", results |-> "", error |-> e]

\* The results objects the in-page evaluation can return.
ResultsValues == {"r1", "r2"}

(* ------------------------------------------------- request interception *)

\* The loop over Object.entries(options.headers): the first n entries set
\* on the object that starts as {'user-agent': options.userAgent}.
RECURSIVE SetHeaders(_, _, _)
SetHeaders(entries, n, base) ==
    IF n = 0
    THEN base
    ELSE LET prev == SetHeaders(entries, n - 1, base)
             key == ToLowerCase(entries[n][1])
         IN [k \in DOMAIN prev \cup {key} |-> IF k = key THEN entries[n][2] ELSE prev[k]]

\* An override set whose user-agent is assigned after the custom headers.
overridesUserAgentLast(opts) ==
    LET custom == SetHeaders(opts.headers, Len(opts.headers), EmptyObject)
        set == [method |-> opts.method,
                headers |-> (UserAgentKey :> opts.userAgent) @@ custom]
    IN IF Truthy(opts.postData) THEN ("postData" :> opts.postData) @@ set ELSE set

\* The override set computed for the first intercepted request.
overrides(opts) ==
    LET set == [method |-> opts.method,
                headers |-> SetHeaders(opts.headers, Len(opts.headers),
                                       UserAgentKey :> opts.userAgent)]
    IN IF Truthy(opts.postData) THEN ("postData" :> opts.postData) @@ set ELSE set

\* const overrides = {}.
EmptyOverrides == [k \in {} |-> Null]

\* A hook that never looks at interceptionHandled.
HookOverridesAlways(handled, opts) == overrides(opts)

\* What the 'request' hook passes to interceptedRequest.continue().
HookOverrides(handled, opts) ==
    IF ~handled THEN overrides(opts) ELSE EmptyOverrides

(* ----------------------------------------------------------------- state *)

VARIABLES
    urlArg,              \* the url string the caller passed
    url,                 \* the url variable of pa11y(), a string
    callerOptions,       \* the options object the caller passed
    callback,            \* "none", or how the supplied callback behaves
    options,             \* the options variable of pa11y()
    pc,                  \* pa11y(): "start", "racing" (awaiting p-timeout), "done"
    state,               \* the run state object; state.browser
    stage,               \* runPa11yTest(): the operation it is awaiting
    started,             \* the actions runAction was called with, in call order
    settledActions,      \* how many runAction promises resolved
    results,             \* the value of the in-page evaluation
    pipeline,            \* the promise of runPa11yTest(): its outcome
    hookRegistered,      \* page.on('request', ...) was called
    interceptionHandled, \* the flag of the 'request' hook
    continued,           \* the override sets passed to continue(), in order
    timedOut,            \* the p-timeout timer fired
    launchCalls,         \* calls of puppeteer.launch
    closeCalls,          \* calls of browser.close
    closeFailed,         \* some browser.close() promise rejected
    observed,            \* what the caller observed, in order
    callbackCalls,       \* the outcomes the callback was called with, in order
    promise,             \* the promise pa11y() returned
    logError,            \* the stages reported to options.log.error
    screenshotFailed,    \* page.screenshot() rejected
    calls,               \* runPa11yTest(): its calls and resumed awaits, in order
    runs,                \* concurrent invocations: the locals of each pa11y() call
    stateObjects,        \* concurrent invocations: the state objects, by cell
    handledFlags,        \* concurrent invocations: the interceptionHandled flags, by cell
    closeLog,            \* concurrent invocations: <<caller, browser>> of each close()
    invoked              \* calls of pa11y() made in this process

vars ==
    <<urlArg, url, callerOptions, callback, options, pc, state, stage, started,
      settledActions, results, pipeline, hookRegistered, interceptionHandled, continued,
      timedOut, launchCalls, closeCalls, closeFailed, observed, callbackCalls, promise,
      logError, screenshotFailed, calls, runs, stateObjects, handledFlags, closeLog,
      pa11yDefaults, invoked>>

\* The variables of the process.
processVars == <<pa11yDefaults, invoked>>

\* The variables of the specification of concurrent invocations.
concurrentVars == <<runs, stateObjects, handledFlags, closeLog>>

\* The variables of the request hook.
hookVars == <<hookRegistered, interceptionHandled, continued>>

\* The variables through which the caller and the browser see pa11y().
ioVars == <<closeCalls, closeFailed, observed, callbackCalls, promise>>

\* state.browser before the launch resolved, and after.
NoBrowser == "undefined"
Browser == "browser"

\* A promise that has not settled.
Pending == [status |-> "pending", value |-> Undefined]
Resolved(v) == [status |-> "resolved", value |-> v]
Rejected(e) == [status |-> "rejected", value |-> ErrorOutcome(e)]

(* ---------------------------------------------------------------- inputs *)

\* The standards callers pass: the allowed ones and two that are not.
StandardInputs == {"Section508", "WCAG2A", "WCAG2AA", "WCAG2AAA", "BOGUS", "wcag2aa"}

\* The action descriptors callers configure.
ActionInputs == {"click", "wait"}

\* All sequences over S of length at most n.
SeqsUpTo(S, n) == UNION {[1..k -> S] : k \in 0..n}

\* The header objects callers pass, as their Object.entries.
HeaderInputs ==
    {<<>>,
     << <<<<"X", "-", "A">>, "1">> >>,
     << <<<<"U", "s", "e", "r", "-", "A", "g", "e", "n", "t">>, "custom">>,
        <<<<"x", "-", "a">>, "2">>, <<<<"X", "-", "A">>, "3">> >>}

\* The behaviours of the last argument: no function, one that returns, one
\* that throws.
CallbackInputs == {"none", "returns", "throws"}

\* The object {} and the objects {k: v} for v in S.
Choices(k, S) == {EmptyObject} \cup {k :> v : v \in S}

\* The request-related options callers pass.
RequestInputs ==
    {EmptyObject, [method |-> "POST", postData |-> "a=b"]}
        \cup {[headers |-> h] : h \in HeaderInputs}

\* The url of the pipeline specification.
PipelineUrls == {<<"a", ".", "b">>}

\* The options objects of the pipeline specification.
PipelineOptions ==
    {(((a @@ b) @@ c) @@ d) @@ e :
        a \in Choices("standard", StandardInputs),
        b \in Choices("actions", SeqsUpTo(ActionInputs, MaxActions) \ {<<>>}),
        c \in Choices("screenCapture", {"shot.png"}),
        d \in Choices("timeout", {50}),
        e \in RequestInputs}

(* --------------------------------------------------- pa11y(): the caller *)

\* The caller-visible effects of a step, as one record.
Io ==
    [closeCalls |-> closeCalls, closeFailed |-> closeFailed, observed |-> observed,
     callbackCalls |-> callbackCalls, promise |-> promise]

SetIo(io) ==
    /\ closeCalls' = io.closeCalls
    /\ closeFailed' = io.closeFailed
    /\ observed' = io.observed
    /\ callbackCalls' = io.callbackCalls
    /\ promise' = io.promise

\* browser.close(), called without awaiting the promise it returns; ok says
\* whether that promise resolves.
Close(io, ok) == [io EXCEPT !.closeCalls = @ + 1, !.closeFailed = @ \/ ~ok]

\* The caller observes an outcome; closes is the number of browser.close
\* calls made before that.
Observe(io, out) ==
    [io EXCEPT !.observed = Append(@, [outcome |-> out, closes |-> io.closeCalls])]

\* A catch block that forgets the browser.
HandlerNeverCloses(browser) == FALSE

\* if (state.browser).
HandlerCloses(browser) == browser # NoBrowser

\* The catch block of pa11y(), entered with error.
CatchBlock(io, error, browser, closeOk) ==
    LET closed == IF HandlerCloses(browser) THEN Close(io, closeOk) ELSE io
        seen == Observe(closed, ErrorOutcome(error))
    IN IF callback # "none"
       THEN [seen EXCEPT !.callbackCalls = Append(@, ErrorOutcome(error)),
                         !.promise = IF callback = "throws"
                                     THEN Rejected(CallbackError)
                                     ELSE Resolved(Undefined)]
       ELSE [seen EXCEPT !.promise = Rejected(error)]

\* The end of the try block, entered with the results the race resolved
\* with; a callback that throws there lands in the catch block.
TryReturn(io, res, browser, closeOk) ==
    LET seen == Observe(io, ResultsOutcome(res))
    IN IF callback # "none"
       THEN LET called == [seen EXCEPT !.callbackCalls = Append(@, ResultsOutcome(res))]
            IN IF callback = "throws"
               THEN CatchBlock(called, CallbackError, browser, closeOk)
               ELSE [called EXCEPT !.promise = Resolved(Undefined)]
       ELSE [seen EXCEPT !.promise = Resolved(ResultsOutcome(res))]

(* ------------------------------------------ runPa11yTest(): the pipeline *)

\* The call each awaited operation is followed by when it resolves and the
\* code between the two awaits touches no state.
NextCall ==
    [s \in {"newPage", "setCookie", "goto", "bodyHandle", "evaluateHtml", "dispose",
            "addHTMLCS", "addRunner"} |->
        CASE s = "newPage" -> "setRequestInterception"
          [] s = "setCookie" -> "goto"
          [] s = "goto" -> "bodyHandle"
          [] s = "bodyHandle" -> "evaluateHtml"
          [] s = "evaluateHtml" -> "dispose"
          [] s = "dispose" -> "setViewport"
          [] s = "addHTMLCS" -> "addRunner"
          [] s = "addRunner" -> "evaluate"]

\* The awaits whose rejection leaves runPa11yTest().
FatalStages ==
    DOMAIN NextCall
        \cup {"launch", "setRequestInterception", "setViewport", "action", "evaluate"}

\* A loop that walks the list from its end.
ActionAtReversed(actions, i) == actions[Len(actions) + 1 - i]

\* The action of the i-th iteration of for (const action of options.actions).
ActionAt(actions, i) == actions[i]

\* The await on the current operation is over (it resolved, or its
\* rejection was caught) and runPa11yTest() goes on.
Resumed == Append(calls, <<"awaited", stage>>)

\* runPa11yTest() goes on from its current await to the call of next.
ResumedCalling(next) == Append(Resumed, <<"call", next>>)

\* runPa11yTest() goes on from its current await to browser.close();
\* return results: the close is called and not awaited.
ResumedReturning == Resumed \o << <<"call", "close">>, <<"return", "results">> >>

\* After n actions have resolved: the next runAction call, or the first
\* script injection.
ContinueActions(n) ==
    IF n < Len(options.actions)
    THEN /\ started' = Append(started, ActionAt(options.actions, n + 1))
         /\ stage' = "action"
         /\ calls' = ResumedCalling("action")
    ELSE /\ started' = started
         /\ stage' = "addHTMLCS"
         /\ calls' = ResumedCalling("addHTMLCS")

\* A race that a settled promise could settle again.
RaceAlwaysOpen == TRUE

\* The promise of promiseTimeout(...) has not settled: pa11y() is still at
\* its await.
RaceOpen == pc = "racing"

\* runPa11yTest() rejects with error: the race, if still open, is lost.
PipelineRejects(error) ==
    /\ stage' = "rejected"
    /\ pipeline' = Rejected(error)
    /\ calls' = Append(calls, <<"rejected", stage>>)
    /\ IF RaceOpen
       THEN /\ pc' = "done"
            /\ \E closeOk \in (IF HandlerCloses(state.browser) THEN BOOLEAN ELSE {TRUE}) :
                   SetIo(CatchBlock(Io, error, state.browser, closeOk))
       ELSE UNCHANGED <<pc, ioVars>>

\* browser.close(); return results: runPa11yTest() resolves, and the race,
\* if still open, is won.
PipelineResolves(res) ==
    /\ stage' = "resolved"
    /\ pipeline' = Resolved(ResultsOutcome(res))
    /\ calls' = ResumedReturning
    /\ \E closeOk \in BOOLEAN :
        LET closed == Close(Io, closeOk)
        IN IF RaceOpen
           THEN /\ pc' = "done"
                /\ \E handlerCloseOk \in (IF callback = "throws" THEN BOOLEAN ELSE {TRUE}) :
                       SetIo(TryReturn(closed, res, state.browser, handlerCloseOk))
           ELSE /\ pc' = pc
                /\ SetIo(closed)

\* pa11y() up to its first await: the options are resolved and verified and
\* runPa11yTest() runs up to the call of puppeteer.launch.
pa11y ==
    /\ pc = "start"
    /\ url' = sanitizeUrl(url)
    /\ LET resolved == defaultOptions(callerOptions)
       IN /\ options' = resolved
          /\ IF verifyOptions(resolved)
             THEN /\ pc' = "racing"
                  /\ stage' = "launch"
                  /\ launchCalls' = launchCalls + 1
                  /\ calls' = Append(calls, <<"call", "launch">>)
                  /\ UNCHANGED ioVars
             ELSE /\ pc' = "done"
                  /\ SetIo(CatchBlock(Io, ConfigError, state.browser, TRUE))
                  /\ UNCHANGED <<stage, launchCalls, calls>>
    /\ callerOptions' = CallerAfter(callerOptions)
    /\ pa11yDefaults' = DefaultsAfter(callerOptions)
    /\ invoked' = invoked + 1
    /\ UNCHANGED <<urlArg, callback, state, started, settledActions, results, pipeline,
                   hookVars, timedOut, logError, screenshotFailed, concurrentVars>>

\* puppeteer.launch resolves: state.browser is set and newPage is called.
LaunchResolves ==
    /\ stage = "launch"
    /\ state' = [state EXCEPT !.browser = Browser]
    /\ stage' = "newPage"
    /\ calls' = ResumedCalling("newPage")
    /\ UNCHANGED <<urlArg, url, callerOptions, callback, options, pc, started,
                   settledActions, results, pipeline, hookVars, timedOut, launchCalls,
                   ioVars, logError, screenshotFailed, concurrentVars, processVars>>

\* An awaited operation resolves and the next one is called.
StageResolves ==
    /\ stage \in DOMAIN NextCall
    /\ stage' = NextCall[stage]
    /\ calls' = ResumedCalling(NextCall[stage])
    /\ UNCHANGED <<urlArg, url, callerOptions, callback, options, pc, state, started,
                   settledActions, results, pipeline, hookVars, timedOut, launchCalls,
                   ioVars, logError, screenshotFailed, concurrentVars, processVars>>

\* setRequestInterception resolves: the 'request' hook is registered with
\* its flag false, and setCookie is called.
InterceptionEnabled ==
    /\ stage = "setRequestInterception"
    /\ hookRegistered' = TRUE
    /\ interceptionHandled' = FALSE
    /\ stage' = "setCookie"
    /\ calls' = (Resumed \o << <<"on", "request">>, <<"call", "setCookie">> >>)
    /\ UNCHANGED <<urlArg, url, callerOptions, callback, options, pc, state, started,
                   settledActions, results, pipeline, continued, timedOut, launchCalls,
                   ioVars, logError, screenshotFailed, concurrentVars, processVars>>

\* setViewport resolves: the action loop starts.
ViewportResolves ==
    /\ stage = "setViewport"
    /\ ContinueActions(0)
    /\ UNCHANGED <<settledActions, urlArg, url, callerOptions, callback, options, pc, state,
                   results, pipeline, hookVars, timedOut, launchCalls, ioVars, logError,
                   screenshotFailed, concurrentVars, processVars>>

\* runAction resolves: the loop goes on.
ActionResolves ==
    /\ stage = "action"
    /\ settledActions' = settledActions + 1
    /\ ContinueActions(Len(started))
    /\ UNCHANGED <<urlArg, url, callerOptions, callback, options, pc, state, results,
                   pipeline, hookVars, timedOut, launchCalls, ioVars, logError,
                   screenshotFailed, concurrentVars, processVars>>

\* The in-page evaluation resolves with res: the screenshot is taken if one
\* is configured, else the browser is closed and res returned.
EvaluateResolves ==
    /\ stage = "evaluate"
    /\ \E res \in ResultsValues :
        /\ results' = res
        /\ IF Truthy(options.screenCapture)
           THEN /\ stage' = "screenshot"
                /\ calls' = ResumedCalling("screenshot")
                /\ UNCHANGED <<pc, pipeline, ioVars>>
           ELSE PipelineResolves(res)
    /\ UNCHANGED <<urlArg, url, callerOptions, callback, options, state, started,
                   settledActions, hookVars, timedOut, launchCalls, logError,
                   screenshotFailed, concurrentVars, processVars>>

\* A screenshot whose rejection is not caught.
ScreenshotFatalUncaught(ok) == ~ok

\* Whether a rejection of page.screenshot leaves runPa11yTest(): the try
\* around it catches every one.
ScreenshotFatal(ok) == FALSE

\* page.screenshot settles: a rejection is logged, the browser is closed
\* and the results are returned.
ScreenshotSettles ==
    /\ stage = "screenshot"
    /\ \E ok \in BOOLEAN :
        /\ screenshotFailed' = (screenshotFailed \/ ~ok)
        /\ IF ScreenshotFatal(ok)
           THEN /\ PipelineRejects(StageError("screenshot", 0))
                /\ logError' = logError
           ELSE /\ PipelineResolves(results)
                /\ logError' = IF ok THEN logError
                               ELSE Append(logError, StageError("screenshot", 0))
    /\ UNCHANGED <<urlArg, url, callerOptions, callback, options, state, started,
                   settledActions, results, hookVars, timedOut, launchCalls, concurrentVars,
                   processVars>>

\* An awaited operation other than the screenshot rejects.
StageRejects ==
    /\ stage \in FatalStages
    /\ PipelineRejects(StageError(stage, IF stage = "action" THEN Len(started) ELSE 0))
    /\ UNCHANGED <<urlArg, url, callerOptions, callback, options, state, started,
                   settledActions, results, hookVars, timedOut, launchCalls, logError,
                   screenshotFailed, concurrentVars, processVars>>

\* The page issues a request: the 'request' hook runs.
Request ==
    /\ hookRegistered
    /\ Len(continued) < MaxRequests
    /\ continued' = Append(continued, HookOverrides(interceptionHandled, options))
    /\ interceptionHandled' = (IF ~interceptionHandled THEN TRUE ELSE interceptionHandled)
    /\ UNCHANGED <<urlArg, url, callerOptions, callback, options, pc, state, stage, started,
                   settledActions, results, pipeline, hookRegistered, timedOut, launchCalls,
                   ioVars, logError, screenshotFailed, calls, concurrentVars, processVars>>

\* The p-timeout timer fires before runPa11yTest() settled: the race rejects
\* and the catch block runs; runPa11yTest() is left running.
TimerFires ==
    /\ pc = "racing"
    /\ timedOut' = TRUE
    /\ pc' = "done"
    /\ \E closeOk \in (IF HandlerCloses(state.browser) THEN BOOLEAN ELSE {TRUE}) :
           SetIo(CatchBlock(Io, TimeoutError(options.timeout), state.browser, closeOk))
    /\ UNCHANGED <<urlArg, url, callerOptions, callback, options, state, stage, started,
                   settledActions, results, pipeline, hookVars, launchCalls, logError,
                   screenshotFailed, calls, concurrentVars, processVars>>

(* --------------------------------------------------------- specification *)

Init ==
    /\ urlArg \in PipelineUrls
    /\ url = urlArg
    /\ callerOptions \in PipelineOptions
    /\ callback \in CallbackInputs
    /\ options = callerOptions
    /\ pc = "start"
    /\ state = [browser |-> NoBrowser]
    /\ stage = "idle"
    /\ started = <<>>
    /\ settledActions = 0
    /\ results = ""
    /\ pipeline = Pending
    /\ hookRegistered = FALSE
    /\ interceptionHandled = FALSE
    /\ continued = <<>>
    /\ timedOut = FALSE
    /\ launchCalls = 0
    /\ closeCalls = 0
    /\ closeFailed = FALSE
    /\ observed = <<>>
    /\ callbackCalls = <<>>
    /\ promise = Pending
    /\ logError = <<>>
    /\ screenshotFailed = FALSE
    /\ calls = <<>>
    /\ runs = <<>>
    /\ stateObjects = <<>>
    /\ handledFlags = <<>>
    /\ closeLog = {}
    /\ pa11yDefaults = defaults
    /\ invoked = 0

Next ==
    \/ pa11y
    \/ LaunchResolves
    \/ StageResolves
    \/ InterceptionEnabled
    \/ ViewportResolves
    \/ ActionResolves
    \/ EvaluateResolves
    \/ ScreenshotSettles
    \/ StageRejects
    \/ Request
    \/ TimerFires

Spec == Init /\ [][Next]_vars

(* ---------------------------------------------------------------- claims *)

\* The pipeline has settled and pa11y() has returned: the run is over.
RunOver == pc = "done" /\ stage \in {"resolved", "rejected"}

\* The four allowed standards, as the specification lists them.
FourStandards == {"Section508", "WCAG2A", "WCAG2AA", "WCAG2AAA"}

\* C1: an invocation whose resolved standard is not one of the four allowed
\* values fails with the configuration error, puppeteer.launch is never
\* called and no browser handle is ever stored in the run state.
C1_InvalidStandardNeverLaunches ==
    (pc # "start" /\ options.standard \notin FourStandards) =>
        /\ launchCalls = 0
        /\ state.browser = NoBrowser
        /\ stage = "idle"
        /\ closeCalls = 0
        /\ observed = <<[outcome |-> ErrorOutcome(ConfigError), closes |-> 0]>>
        /\ callback = "none" => promise = Rejected(ConfigError)

\* C1 witness: an invocation with standard BOGUS has delivered its error.
C1_Witness ==
    /\ pc = "done"
    /\ options.standard = "BOGUS"
    /\ Len(observed) = 1

\* C2: when the timer fires before runPa11yTest() settles, the invocation
\* fails with the error carrying the configured duration and, over the whole
\* run of a launched browser, browser.close has been called exactly once.
C2_TimeoutClosesExactlyOnce ==
    (timedOut /\ RunOver /\ state.browser # NoBrowser) =>
        /\ observed[1].outcome = ErrorOutcome(TimeoutError(options.timeout))
        /\ closeCalls = 1

\* C3: in every invocation that launched a browser, browser.close is called
\* exactly once, and that call precedes the caller's observation of the
\* outcome.
C3_LaunchedBrowserClosedOnce ==
    (RunOver /\ state.browser # NoBrowser) =>
        /\ closeCalls = 1
        /\ \A i \in 1..Len(observed) : observed[i].closes = 1

\* C4: the override set (method, headers, postData when configured) goes to
\* continue() for the first intercepted request, the empty set for every
\* later one, and the handled flag, false until the first request, never
\* returns to false.
C4_OverridesOnFirstRequestOnly ==
    /\ [](/\ interceptionHandled <=> Len(continued) >= 1
          /\ \A i \in 1..Len(continued) :
                IF i = 1
                THEN /\ DOMAIN continued[i] =
                            {"method", "headers"} \cup
                                (IF options.postData # Null THEN {"postData"} ELSE {})
                     /\ continued[i].method = options.method
                     /\ UserAgentKey \in DOMAIN continued[i].headers
                     /\ "postData" \in DOMAIN continued[i] =>
                            continued[i].postData = options.postData
                ELSE DOMAIN continued[i] = {})
    /\ [][interceptionHandled => interceptionHandled']_vars

\* C4 witness: two requests were intercepted, one of them while actions ran.
C4_Witness ==
    /\ Len(continued) >= 2
    /\ stage = "action"
    /\ DOMAIN continued[1] = {"method", "headers", "postData"}
    /\ DOMAIN continued[2] = {}

\* C5: runAction is called for the configured actions in list order, one at
\* a time, and once action k has failed no later action is started and
\* neither the script injection nor the evaluation is reached.
C5_ActionsInOrderAbortOnFailure ==
    pc # "start" =>
        /\ Len(started) <= Len(options.actions)
        /\ \A i \in 1..Len(started) : started[i] = options.actions[i]
        /\ Len(started) <= settledActions + 1
        /\ stage \in {"addHTMLCS", "addRunner", "evaluate", "screenshot", "resolved"} =>
                /\ settledActions = Len(options.actions)
                /\ Len(started) = Len(options.actions)
        /\ (pipeline.status = "rejected" /\ pipeline.value.error.stage = "action") =>
                /\ Len(started) = pipeline.value.error.index
                /\ settledActions = Len(started) - 1
                /\ stage = "rejected"
                /\ results = ""

\* C5 witness: the first of two different actions failed.
C5_Witness ==
    /\ pipeline.status = "rejected"
    /\ pipeline.value.error = StageError("action", 1)
    /\ options.actions = <<"click", "wait">>

C7_ScreenshotFailureNotFatal ==
    screenshotFailed =>
        /\ Truthy(options.screenCapture)
        /\ stage = "resolved"
        /\ results \in ResultsValues
        /\ pipeline = Resolved(ResultsOutcome(results))
        /\ logError = <<StageError("screenshot", 0)>>
        /\ closeCalls >= 1
        /\ ~timedOut =>
            /\ observed[1] = [outcome |-> ResultsOutcome(results), closes |-> 1]
            /\ callback = "none" => promise = Resolved(ResultsOutcome(results))

\* C7 witness: the screenshot failed and the caller's promise resolved with
\* the results.
C7_Witness ==
    /\ screenshotFailed
    /\ callback = "none"
    /\ promise.status = "resolved"
    /\ promise.value.kind = "results"

\* C8: each invocation delivers one outcome, results or an error and never
\* both, and results only when the evaluation completed.
C8_ExactlyOneOutcome ==
    /\ Len(observed) <= 1
    /\ RunOver => Len(observed) = 1
    /\ \A i \in 1..Len(observed) :
        observed[i].outcome.kind = "results" =>
            /\ results \in ResultsValues
            /\ observed[i].outcome.results = results

\* C9: a supplied callback is called exactly once, with (null, results) or
\* with (error); after a call with results it is not called with an error.
C9_CallbackCalledOnce ==
    /\ Len(callbackCalls) <= 1
    /\ (pc = "done" /\ callback # "none") => Len(callbackCalls) = 1
    /\ callback = "none" => callbackCalls = <<>>

(* ------------------------------------------- the options resolver alone *)

\* The ignore entries callers pass: mixed case, upper case, already lower.
IgnoreInputs ==
    {<<"A", "b", "1">>,
     <<"N", "O", "T", "I", "C", "E">>,
     <<"w", "a", "r", "n", "i", "n", "g">>}

\* The viewport and chromeLaunchConfig objects callers pass: some keys only,
\* all keys, a key the defaults do not have.
ViewportInputs == {[width |-> 800], [width |-> 800, height |-> 600]}
LaunchConfigInputs == {[headless |-> FALSE]}

\* The options objects of the resolver specification.
ResolverOptions ==
    {((((a @@ b) @@ c) @@ d) @@ e) @@ f :
        a \in Choices("ignore", SeqsUpTo(IgnoreInputs, MaxIgnore)),
        b \in Choices("includeNotices", BOOLEAN),
        c \in Choices("includeWarnings", BOOLEAN),
        d \in Choices("standard", {"WCAG2AAA"}),
        e \in Choices("viewport", ViewportInputs),
        f \in Choices("chromeLaunchConfig", LaunchConfigInputs)}

\* options = defaultOptions(options), the statement of pa11y() on its own.
ResolveOptions ==
    /\ pc = "start"
    /\ options' = defaultOptions(callerOptions)
    /\ pc' = "resolved"
    /\ callerOptions' = CallerAfter(callerOptions)
    /\ pa11yDefaults' = DefaultsAfter(callerOptions)
    /\ invoked' = invoked + 1
    /\ UNCHANGED <<urlArg, url, callback, state, stage, started, settledActions, results,
                   pipeline, hookVars, timedOut, launchCalls, ioVars, logError,
                   screenshotFailed, calls, concurrentVars>>

InitOptions ==
    /\ urlArg \in PipelineUrls
    /\ url = urlArg
    /\ callerOptions \in ResolverOptions
    /\ callback = "none"
    /\ options = callerOptions
    /\ pc = "start"
    /\ state = [browser |-> NoBrowser]
    /\ stage = "idle"
    /\ started = <<>>
    /\ settledActions = 0
    /\ results = ""
    /\ pipeline = Pending
    /\ hookRegistered = FALSE
    /\ interceptionHandled = FALSE
    /\ continued = <<>>
    /\ timedOut = FALSE
    /\ launchCalls = 0
    /\ closeCalls = 0
    /\ closeFailed = FALSE
    /\ observed = <<>>
    /\ callbackCalls = <<>>
    /\ promise = Pending
    /\ logError = <<>>
    /\ screenshotFailed = FALSE
    /\ calls = <<>>
    /\ runs = <<>>
    /\ stateObjects = <<>>
    /\ handledFlags = <<>>
    /\ closeLog = {}
    /\ pa11yDefaults = defaults
    /\ invoked = 0

\* The caller calls pa11y() once more with the same options object.
CallAgain ==
    /\ pc = "resolved"
    /\ invoked < MaxCalls
    /\ pc' = "start"
    /\ options' = callerOptions
    /\ UNCHANGED <<urlArg, url, callerOptions, callback, state, stage, started,
                   settledActions, results, pipeline, hookVars, timedOut, launchCalls,
                   ioVars, logError, screenshotFailed, calls, concurrentVars,
                   processVars>>

NextOptions == ResolveOptions \/ CallAgain

SpecOptions == InitOptions /\ [][NextOptions]_vars

\* t is s with every upper-case letter replaced by its lower-case letter.
IsLowerCased(t, s) ==
    /\ Len(t) = Len(s)
    /\ \A j \in 1..Len(s) :
        /\ s[j] \in DOMAIN UpperToLower => t[j] = UpperToLower[s[j]]
        /\ s[j] \notin DOMAIN UpperToLower => t[j] = s[j]

\* The caller's ignore list and toggles, as passed.
CallerIgnore == IF "ignore" \in DOMAIN callerOptions THEN callerOptions.ignore ELSE <<>>
CallerIncludes(k) == k \in DOMAIN callerOptions /\ callerOptions[k]

\* C10: the resolved ignore list is the caller's entries lower-cased, then
\* "notice" exactly when includeNotices is not truthy, then "warning"
\* exactly when includeWarnings is not truthy.
C10_ResolvedIgnoreList ==
    pc = "resolved" =>
        LET n == Len(CallerIgnore)
            notice == IF CallerIncludes("includeNotices") THEN 0 ELSE 1
            warning == IF CallerIncludes("includeWarnings") THEN 0 ELSE 1
        IN /\ Len(options.ignore) = n + notice + warning
           /\ \A i \in 1..n : IsLowerCased(options.ignore[i], CallerIgnore[i])
           /\ notice = 1 => options.ignore[n + 1] = Notice
           /\ warning = 1 => options.ignore[n + notice + 1] = Warning

\* C10 witness: {standard: WCAG2AAA, includeNotices: true} with an
\* upper-case ignore entry resolves to that entry lower-cased plus "warning".
C10_Witness ==
    /\ pc = "resolved"
    /\ DOMAIN callerOptions = {"standard", "includeNotices", "ignore"}
    /\ callerOptions.standard = "WCAG2AAA"
    /\ callerOptions.includeNotices
    /\ callerOptions.ignore = <<<<"N", "O", "T", "I", "C", "E">>>>
    /\ options.ignore = <<Notice, Warning>>

\* The options whose values are objects.
NestedOptions == {"viewport", "chromeLaunchConfig"}

\* C11: a caller override that sets only some keys of a nested option
\* leaves, in the resolved nested object, the default value of every key the
\* caller did not set, and the caller's value of every key it set.
C11_NestedMergeKeepsDefaults ==
    pc = "resolved" =>
        \A k \in NestedOptions :
            /\ \A j \in DOMAIN defaults[k] :
                (k \notin DOMAIN callerOptions \/ j \notin DOMAIN callerOptions[k]) =>
                    /\ j \in DOMAIN options[k]
                    /\ options[k][j] = defaults[k][j]
            /\ k \in DOMAIN callerOptions =>
                \A j \in DOMAIN callerOptions[k] :
                    /\ j \in DOMAIN options[k]
                    /\ options[k][j] = callerOptions[k][j]

(* ---------------------------------------------------- sanitizeUrl alone *)

\* How url inputs begin: nothing, a slash, periods, schemes in several
\* letter cases, near-schemes and another scheme.
UrlHeads ==
    {<<>>, <<"/">>, <<".">>, <<".", ".", "/">>,
     HttpScheme, HttpsScheme, FileScheme,
     <<"H", "T", "T", "P", ":", "/", "/">>,
     <<"h", "T", "t", "P", "s", ":", "/", "/">>,
     <<"F", "i", "l", "e", ":", "/", "/">>,
     <<"h", "t", "t", "p", ":", "/">>,
     <<"h", "t", "t", "p", "s", "s", ":", "/", "/">>,
     <<"f", "t", "p", ":", "/", "/">>,
     <<"a", "h", "t", "t", "p", ":", "/", "/">>}

\* The characters that follow.
UrlChars == {"a", "/", "."}

\* The url strings of the sanitizer specification.
UrlInputs == {h \o t : h \in UrlHeads, t \in SeqsUpTo(UrlChars, MaxUrlTail)}

\* url = sanitizeUrl(url), the statement of pa11y() on its own.
SanitizeUrl ==
    /\ pc = "start"
    /\ url' = sanitizeUrl(url)
    /\ pc' = "sanitized"
    /\ UNCHANGED <<urlArg, callerOptions, callback, options, state, stage, started,
                   settledActions, results, pipeline, hookVars, timedOut, launchCalls,
                   ioVars, logError, screenshotFailed, calls, concurrentVars, processVars>>

\* sanitizeUrl applied to its own result.
SanitizeAgain ==
    /\ pc = "sanitized"
    /\ url' = sanitizeUrl(url)
    /\ pc' = "sanitizedAgain"
    /\ UNCHANGED <<urlArg, callerOptions, callback, options, state, stage, started,
                   settledActions, results, pipeline, hookVars, timedOut, launchCalls,
                   ioVars, logError, screenshotFailed, calls, concurrentVars, processVars>>

InitUrl ==
    /\ urlArg \in UrlInputs
    /\ url = urlArg
    /\ callerOptions = EmptyObject
    /\ callback = "none"
    /\ options = callerOptions
    /\ pc = "start"
    /\ state = [browser |-> NoBrowser]
    /\ stage = "idle"
    /\ started = <<>>
    /\ settledActions = 0
    /\ results = ""
    /\ pipeline = Pending
    /\ hookRegistered = FALSE
    /\ interceptionHandled = FALSE
    /\ continued = <<>>
    /\ timedOut = FALSE
    /\ launchCalls = 0
    /\ closeCalls = 0
    /\ closeFailed = FALSE
    /\ observed = <<>>
    /\ callbackCalls = <<>>
    /\ promise = Pending
    /\ logError = <<>>
    /\ screenshotFailed = FALSE
    /\ calls = <<>>
    /\ runs = <<>>
    /\ stateObjects = <<>>
    /\ handledFlags = <<>>
    /\ closeLog = {}
    /\ pa11yDefaults = defaults
    /\ invoked = 0

NextUrl == SanitizeUrl \/ SanitizeAgain

SpecUrl == InitUrl /\ [][NextUrl]_vars

\* s carries http://, https:// or file:// in some letter case.
CarriesScheme(s) ==
    \/ Len(s) >= 7 /\ ToLowerCase(SubSeq(s, 1, 7)) \in {HttpScheme, FileScheme}
    \/ Len(s) >= 8 /\ ToLowerCase(SubSeq(s, 1, 8)) = HttpsScheme

\* p is an absolute path in normal form: segments behind single slashes,
\* none of them "." or "..".
IsNormalPath(p) ==
    /\ p # <<>>
    /\ p[1] = "/"
    /\ p # <<"/">> =>
        \A i \in 2..Len(SplitPath(p)) :
            SplitPath(p)[i] \notin {<<>>, <<".">>, <<".", ".">>}

StagesBeforeClose(n, shot) ==
    <<"launch", "newPage", "setRequestInterception", "hook", "setCookie", "goto",
      "bodyHandle", "evaluateHtml", "dispose", "setViewport">>
    \o [i \in 1..n |-> "action"]
    \o <<"addHTMLCS", "addRunner", "evaluate">>
    \o (IF shot THEN <<"screenshot">> ELSE <<>>)

\* One operation called and awaited; the listener registration is one
\* synchronous call.
CalledAndAwaited(op) ==
    IF op = "hook" THEN << <<"on", "request">> >> ELSE << <<"call", op>>, <<"awaited", op>> >>

\* Every operation of ops called and awaited before the next is called.
RECURSIVE EachAwaited(_)
EachAwaited(ops) ==
    IF ops = <<>> THEN <<>> ELSE CalledAndAwaited(Head(ops)) \o EachAwaited(Tail(ops))

\* C13: in a successful run the stages occur in the order launch, page
\* creation, interception enabled and hook registered, cookie, navigation,
\* viewport, all actions, the two script injections, evaluation, optional
\* screenshot, browser close, results returned, and each of them is awaited
\* before the next starts.
C13_StagesAwaitedInOrder ==
    stage = "resolved" =>
        calls = EachAwaited(StagesBeforeClose(Len(options.actions),
                                              Truthy(options.screenCapture))
                            \o <<"close">>)
                \o << <<"return", "results">> >>

\* The part of C13 that holds: every stage before the close is awaited in
\* the documented order, then browser.close() is called and the results
\* are returned without awaiting it.
StagesAwaitedUpToClose ==
    stage = "resolved" =>
        calls = EachAwaited(StagesBeforeClose(Len(options.actions),
                                              Truthy(options.screenCapture)))
                \o << <<"call", "close">>, <<"return", "results">> >>

(* ------------------------------------------------ the request hook alone *)

\* The header names callers use: two spellings of the user agent header and
\* two of a custom one.
HeaderKeys ==
    {<<"U", "s", "e", "r", "-", "A", "g", "e", "n", "t">>,
     <<"u", "s", "e", "r", "-", "a", "g", "e", "n", "t">>,
     <<"X", "-", "A">>, <<"x", "-", "a">>}

\* Object.entries of the header objects callers pass: no name twice.
HeaderEntries ==
    {e \in SeqsUpTo(HeaderKeys \X {"1", "2"}, MaxHeaders) :
        \A i, j \in 1..Len(e) : e[i][1] = e[j][1] => i = j}

\* The request-related options of the request-hook specification.
HookOptions ==
    {((a @@ b) @@ c) @@ d :
        a \in Choices("headers", HeaderEntries),
        b \in Choices("postData", {"", "a=b"}),
        c \in Choices("userAgent", {"ua"}),
        d \in Choices("method", {"POST"})}

\* runPa11yTest() right after page.on('request', ...): the browser and the
\* page exist, the flag is false and setCookie has been called.
InitHook ==
    /\ pa11yDefaults = defaults
    /\ urlArg \in PipelineUrls
    /\ url = sanitizeUrl(urlArg)
    /\ callerOptions \in HookOptions
    /\ callback = "none"
    /\ options = defaultOptions(callerOptions)
    /\ pc = "racing"
    /\ state = [browser |-> Browser]
    /\ stage = "setCookie"
    /\ started = <<>>
    /\ settledActions = 0
    /\ results = ""
    /\ pipeline = Pending
    /\ hookRegistered = TRUE
    /\ interceptionHandled = FALSE
    /\ continued = <<>>
    /\ timedOut = FALSE
    /\ launchCalls = 1
    /\ closeCalls = 0
    /\ closeFailed = FALSE
    /\ observed = <<>>
    /\ callbackCalls = <<>>
    /\ promise = Pending
    /\ logError = <<>>
    /\ screenshotFailed = FALSE
    /\ calls = << <<"call", "launch">>, <<"awaited", "launch">>,
                  <<"call", "newPage">>, <<"awaited", "newPage">>,
                  <<"call", "setRequestInterception">>,
                  <<"awaited", "setRequestInterception">>,
                  <<"on", "request">>, <<"call", "setCookie">> >>
    /\ runs = <<>>
    /\ stateObjects = <<>>
    /\ handledFlags = <<>>
    /\ closeLog = {}
    /\ invoked = 1

NextHook == Request

SpecHook == InitHook /\ [][NextHook]_vars

\* k has no upper-case letter.
HasNoUpperCase(k) == \A i \in 1..Len(k) : k[i] \notin DOMAIN UpperToLower

\* The entries of options.headers whose name is the user agent header in
\* some letter case.
UserAgentEntries ==
    {i \in 1..Len(options.headers) : IsLowerCased(UserAgentKey, options.headers[i][1])}

\* C14: the header map of the first request has only lower-cased keys, no
\* two of them differing only in letter case, and always the key
\* user-agent, whose value is options.userAgent unless options.headers has
\* a key that lower-cases to user-agent, and then the custom value; the
\* method override is always set; postData is in the override set only
\* when options.postData is configured.
C14_FirstRequestHeaderMap ==
    Len(continued) >= 1 =>
        LET first == continued[1]
            map == first.headers
        IN /\ \A k \in DOMAIN map : HasNoUpperCase(k)
           /\ \A k1, k2 \in DOMAIN map : IsLowerCased(k1, k2) => k1 = k2
           /\ \A i \in 1..Len(options.headers) :
                \E k \in DOMAIN map : IsLowerCased(k, options.headers[i][1])
           /\ UserAgentKey \in DOMAIN map
           /\ IF UserAgentEntries = {}
              THEN map[UserAgentKey] = options.userAgent
              ELSE \E i \in UserAgentEntries :
                    /\ \A j \in UserAgentEntries : j <= i
                    /\ map[UserAgentKey] = options.headers[i][2]
           /\ "method" \in DOMAIN first
           /\ first.method = options.method
           /\ "postData" \in DOMAIN first =>
                /\ "postData" \in DOMAIN callerOptions
                /\ callerOptions.postData # ""
                /\ first.postData = callerOptions.postData

\* C14 witness: the caller's User-Agent header replaced options.userAgent in
\* the first request, next to a custom header, and postData was sent.
C14_Witness ==
    /\ Len(continued) >= 1
    /\ Len(options.headers) = 2
    /\ UserAgentEntries # {}
    /\ options.userAgent = "ua"
    /\ continued[1].headers[UserAgentKey] \in {"1", "2"}
    /\ "postData" \in DOMAIN continued[1]

(* ------------------------------------------------ after the timer has won *)

\* C15: once the timer has won the race, the pipeline runs on, and no step
\* it takes (resolving, rejecting, closing the browser again) changes what
\* the caller observed or the promise pa11y() returned, or calls the
\* callback.
C15_LoserChangesNoOutcome ==
    [][timedOut =>
        /\ observed' = observed
        /\ callbackCalls' = callbackCalls
        /\ promise' = promise
        /\ pc' = pc]_vars

\* C15 witness: after the timeout the handler closed the browser, the
\* pipeline ran to its end and closed it again, and the caller still holds
\* the one timeout error.
C15_Witness ==
    /\ timedOut
    /\ stage = "resolved"
    /\ closeCalls = 2
    /\ callback = "returns"
    /\ Len(observed) = 1
    /\ observed[1].outcome = ErrorOutcome(TimeoutError(options.timeout))
    /\ callbackCalls = <<observed[1].outcome>>

(* -------------------------------------------------- concurrent invocations *)

\* The variables of the single invocation of the other specifications.
sequentialVars ==
    <<urlArg, url, callerOptions, callback, options, pc, state, stage, started,
      settledActions, results, pipeline, hookVars, timedOut, launchCalls, ioVars,
      logError, screenshotFailed, calls>>

\* The concurrent calls of pa11y().
Invocations == 1..MaxInvocations

\* The options invocation i is called with: each its own method and headers.
ConcurrentOptions(i) ==
    [method |-> IF i = 1 THEN "POST" ELSE "GET",
     headers |-> << <<<<"X", "-", "I">>, ToString(i)>> >>]

\* The options variable of invocation i after options = defaultOptions(options).
InvocationOptions(i) == defaultOptions(ConcurrentOptions(i))

\* The browser puppeteer.launch returns to invocation i: each call starts a
\* browser of its own.
LaunchedBrowser(i) == "browser" \o ToString(i)

\* One state object that every call of pa11y() uses.
SharedStateCell(i) == 1

\* const state = {}: the object the i-th call of pa11y() creates.
StateCell(i) == i

\* One interceptionHandled variable that every call of runPa11yTest() uses.
SharedFlagCell(i) == 1

\* let interceptionHandled = false: the variable the i-th call of
\* runPa11yTest() creates.
FlagCell(i) == i

\* browser.close() called by invocation i on browser.
CloseBy(i, browser) == closeLog \cup {<<i, browser>>}

\* The catch block of invocation i: the browser of its state object, if
\* there is one, is closed.
CatchCloses(i) ==
    LET browser == stateObjects[StateCell(i)].browser
    IN closeLog' = IF HandlerCloses(browser) THEN CloseBy(i, browser) ELSE closeLog

\* pa11y() of invocation i up to its first await.
StartInvocation(i) ==
    /\ runs[i].pc = "start"
    /\ verifyOptions(InvocationOptions(i))
    /\ runs' = [runs EXCEPT ![i].pc = "racing", ![i].stage = "launch"]
    /\ stateObjects' = (StateCell(i) :> [browser |-> NoBrowser]) @@ stateObjects
    /\ pa11yDefaults' = DefaultsAfter(ConcurrentOptions(i))
    /\ invoked' = invoked + 1
    /\ UNCHANGED <<sequentialVars, handledFlags, closeLog>>

\* puppeteer.launch of invocation i resolves.
InvocationLaunchResolves(i) ==
    /\ runs[i].stage = "launch"
    /\ runs' = [runs EXCEPT ![i].stage = "newPage", ![i].browser = LaunchedBrowser(i)]
    /\ stateObjects' = [stateObjects EXCEPT ![StateCell(i)].browser = LaunchedBrowser(i)]
    /\ UNCHANGED <<sequentialVars, handledFlags, closeLog, processVars>>

\* An awaited operation of invocation i resolves and the next one is called;
\* after setRequestInterception the hook is registered with its flag false,
\* and with no actions configured the script injection follows setViewport.
InvocationStageResolves(i) ==
    /\ runs[i].stage \in DOMAIN NextCall \cup {"setRequestInterception", "setViewport"}
    /\ IF runs[i].stage = "setRequestInterception"
       THEN /\ runs' = [runs EXCEPT ![i].stage = "setCookie", ![i].hookRegistered = TRUE]
            /\ handledFlags' = (FlagCell(i) :> FALSE) @@ handledFlags
       ELSE /\ runs' = [runs EXCEPT ![i].stage = IF @ = "setViewport" THEN "addHTMLCS"
                                                 ELSE NextCall[@]]
            /\ handledFlags' = handledFlags
    /\ UNCHANGED <<sequentialVars, stateObjects, closeLog, processVars>>

\* The evaluation of invocation i resolves: its browser is closed and the
\* results are returned.
InvocationEvaluateResolves(i) ==
    /\ runs[i].stage = "evaluate"
    /\ runs' = [runs EXCEPT ![i].stage = "resolved", ![i].pc = "done"]
    /\ closeLog' = CloseBy(i, runs[i].browser)
    /\ UNCHANGED <<sequentialVars, stateObjects, handledFlags, processVars>>

\* An awaited operation of invocation i rejects: if its race is still open,
\* its catch block runs.
InvocationStageRejects(i) ==
    /\ runs[i].stage \in FatalStages \ {"action"}
    /\ runs' = [runs EXCEPT ![i].stage = "rejected", ![i].pc = "done"]
    /\ IF runs[i].pc = "racing" THEN CatchCloses(i) ELSE closeLog' = closeLog
    /\ UNCHANGED <<sequentialVars, stateObjects, handledFlags, processVars>>

\* The timer of invocation i fires before its pipeline settled.
InvocationTimerFires(i) ==
    /\ runs[i].pc = "racing"
    /\ runs' = [runs EXCEPT ![i].pc = "done"]
    /\ CatchCloses(i)
    /\ UNCHANGED <<sequentialVars, stateObjects, handledFlags, processVars>>

\* The page of invocation i issues a request: its hook runs.
InvocationRequest(i) ==
    /\ runs[i].hookRegistered
    /\ Len(runs[i].continued) < MaxRequestsEach
    /\ runs' = [runs EXCEPT ![i].continued =
                    Append(@, HookOverrides(handledFlags[FlagCell(i)], InvocationOptions(i)))]
    /\ handledFlags' = [handledFlags EXCEPT ![FlagCell(i)] = TRUE]
    /\ UNCHANGED <<sequentialVars, stateObjects, closeLog, processVars>>

InitConcurrent ==
    /\ urlArg \in PipelineUrls
    /\ url = urlArg
    /\ callerOptions = EmptyObject
    /\ callback = "none"
    /\ options = callerOptions
    /\ pc = "start"
    /\ state = [browser |-> NoBrowser]
    /\ stage = "idle"
    /\ started = <<>>
    /\ settledActions = 0
    /\ results = ""
    /\ pipeline = Pending
    /\ hookRegistered = FALSE
    /\ interceptionHandled = FALSE
    /\ continued = <<>>
    /\ timedOut = FALSE
    /\ launchCalls = 0
    /\ closeCalls = 0
    /\ closeFailed = FALSE
    /\ observed = <<>>
    /\ callbackCalls = <<>>
    /\ promise = Pending
    /\ logError = <<>>
    /\ screenshotFailed = FALSE
    /\ calls = <<>>
    /\ runs = [i \in Invocations |->
                [pc |-> "start", stage |-> "idle", browser |-> NoBrowser,
                 hookRegistered |-> FALSE, continued |-> <<>>]]
    /\ stateObjects = <<>>
    /\ handledFlags = <<>>
    /\ closeLog = {}
    /\ pa11yDefaults = defaults
    /\ invoked = 0

NextConcurrent ==
    \E i \in Invocations :
        \/ StartInvocation(i)
        \/ InvocationLaunchResolves(i)
        \/ InvocationStageResolves(i)
        \/ InvocationEvaluateResolves(i)
        \/ InvocationStageRejects(i)
        \/ InvocationTimerFires(i)
        \/ InvocationRequest(i)

SpecConcurrent == InitConcurrent /\ [][NextConcurrent]_vars

\* C16: in every interleaving of concurrent invocations, the first request
\* of each invocation is continued with that invocation's own overrides
\* (its method, its header) and every later one with none, whatever the
\* other invocations' pages requested, and every browser.close() an
\* invocation makes, on success, failure or timeout, is on the browser that
\* invocation launched.
C16_InvocationsShareNothing ==
    /\ \A i \in Invocations :
        \A n \in 1..Len(runs[i].continued) :
            IF n = 1
            THEN /\ DOMAIN runs[i].continued[n] = {"method", "headers"}
                 /\ runs[i].continued[n].method = ConcurrentOptions(i).method
                 /\ runs[i].continued[n].headers[<<"x", "-", "i">>] = ToString(i)
            ELSE DOMAIN runs[i].continued[n] = {}
    /\ \A c \in closeLog : c[2] = LaunchedBrowser(c[1])

\* C16 witness: the pages of both invocations requested, the second's first
\* request got the second's overrides, and the first invocation timed out
\* or failed and closed its browser while the second went on.
C16_Witness ==
    /\ Len(runs[1].continued) = 1
    /\ Len(runs[2].continued) = 1
    /\ runs[2].continued[1].method = "GET"
    /\ runs[1].stage # "resolved"
    /\ closeLog = {<<1, LaunchedBrowser(1)>>}
    /\ runs[2].stage = "evaluate"
    /\ runs[2].pc = "racing"

(* ------------------------------------------------ every browser is closed *)

\* C17: every browser an invocation launched is closed by it in the end, on
\* every path. Once pa11y() has returned and runPa11yTest() has settled no
\* step calls browser.close any more, so by then the launched browser has
\* been closed at least once.
C17_LaunchedBrowserEventuallyClosed ==
    (RunOver /\ state.browser # NoBrowser) => closeCalls >= 1

(* ------------------------------------------ the defaults and the caller's *)

\* C18: no invocation modifies pa11y.defaults or the options object the
\* caller passed: after any sequence of invocations pa11y.defaults.ignore
\* is still empty, and the caller's ignore list is as passed, neither
\* lower-cased nor with "notice" or "warning" appended.
C18_DefaultsAndCallerOptionsUntouched ==
    /\ [](pa11yDefaults = defaults /\ pa11yDefaults.ignore = <<>>)
    /\ [][callerOptions' = callerOptions /\ pa11yDefaults' = pa11yDefaults]_vars

\* C18 witness: pa11y() was called twice with the same options object,
\* whose ignore list has an upper-case letter; the resolved list is
\* lower-cased with "notice" and "warning" appended, the caller's is not.
C18_Witness ==
    /\ pc = "resolved"
    /\ invoked = MaxCalls
    /\ "ignore" \in DOMAIN callerOptions
    /\ Len(callerOptions.ignore) = 1
    /\ ~HasNoUpperCase(callerOptions.ignore[1])
    /\ Len(options.ignore) = 3
    /\ HasNoUpperCase(options.ignore[1])
    /\ pa11yDefaults.ignore = <<>>

(* ------------------------------------------------ sanitizeUrl, idempotent *)

====
